---------------------------- MODULE Spec2Model ----------------------------
(***************************************************************************)
(* BACnet layer-3 router core of apps/fuzz-afl/main.c: the routing table   *)
(* (ports and their remote networks), the network-layer control handler    *)
(* and the routed-APDU forwarder, driven by frames received on the two     *)
(* datalinks (BACnet/IP and MS/TP).                                        *)
(*                                                                         *)
(* C arrays are 0-based; sequences here are 1-based, so buf[i] in C is     *)
(* At(buf, i).  A BACNET_ADDRESS is [net, mac, adr] with mac_len = Len(mac)*)
(* and len = Len(adr).                                                     *)
(***************************************************************************)
EXTENDS Integers, Sequences, FiniteSets, TLC

VARIABLES
    Router_Table_Head,  \* the list of ports, each with its list of DNETs
    BIP_Net,            \* network number of the BACnet/IP port
    MSTP_Net,           \* network number of the MS/TP port
    pc,                 \* "boot" | "idle" | "handled"
    rx,                 \* the frame being handled: link, snet, mac, pdu, tail
                        \* and its decoded NPCI
    sent,               \* PDUs handed to the datalinks while handling rx
    apdus,              \* APDUs handed to apdu_handler while handling rx
    before              \* Router_Table_Head when rx arrived

vars == <<Router_Table_Head, BIP_Net, MSTP_Net, pc, rx, sent, apdus, before>>

-----------------------------------------------------------------------------
(* Program constants *)

MAX_MAC_LEN == 7
BACNET_BROADCAST_NETWORK == 65535
BACNET_PROTOCOL_VERSION == 1
HOP_COUNT_DEFAULT == 255
PDU_TYPE_CONFIRMED_SERVICE_REQUEST == 0
NETWORK_REJECT_UNKNOWN_MESSAGE_TYPE == 3

NETWORK_MESSAGE_WHO_IS_ROUTER_TO_NETWORK == 0
NETWORK_MESSAGE_I_AM_ROUTER_TO_NETWORK == 1
NETWORK_MESSAGE_I_COULD_BE_ROUTER_TO_NETWORK == 2
NETWORK_MESSAGE_REJECT_MESSAGE_TO_NETWORK == 3
NETWORK_MESSAGE_ROUTER_BUSY_TO_NETWORK == 4
NETWORK_MESSAGE_ROUTER_AVAILABLE_TO_NETWORK == 5
NETWORK_MESSAGE_INIT_RT_TABLE == 6
NETWORK_MESSAGE_INIT_RT_TABLE_ACK == 7
NETWORK_MESSAGE_ESTABLISH_CONNECTION_TO_NETWORK == 8
NETWORK_MESSAGE_DISCONNECT_CONNECTION_TO_NETWORK == 9

(* Bound of the model: the number of remote networks the table may hold.  *)
MaxRemotes == 2

-----------------------------------------------------------------------------
(* Octets, 16-bit values and addresses *)

At(buf, i) == buf[i + 1]

(* &buf[i]: the buffer from offset i on *)
From(buf, i) == SubSeq(buf, i + 1, Len(buf))

(* uint8_t and uint16_t arithmetic *)
U8(n) == n % 256

U16(n) == n % 65536

(* bacnet/bacint.c: 2 octets, most significant first *)
decode_unsigned16(buf, i) == At(buf, i) * 256 + At(buf, i + 1)

encode_unsigned16(n) == <<n \div 256, n % 256>>

(* BACNET_ADDRESS *)
Address(net, mac, adr) == [net |-> net, mac |-> mac, adr |-> adr]

(* a NULL BACNET_ADDRESS pointer *)
NoAddress == [net |-> -1, mac |-> <<>>, adr |-> <<>>]

(* BACNET_ADDRESS x = { 0 } *)
ZeroAddress == Address(0, <<>>, <<>>)

-----------------------------------------------------------------------------
(* Routing table: main.c DNET lists *)

Port(net, mac) == [net |-> net, mac |-> mac, enabled |-> TRUE, dnets |-> <<>>]

Dnet(net, mac) == [net |-> net, mac |-> mac, enabled |-> TRUE]

(* index of the first entry of a port's DNET list with this net, 0 if none *)
RECURSIVE dnets_index(_, _, _)
dnets_index(dnets, j, net) ==
    IF j > Len(dnets) THEN 0
    ELSE IF dnets[j].net = net THEN j
    ELSE dnets_index(dnets, j + 1, net)

(* dnet_find: the walk over the ports starting at port i.  Returns the     *)
(* index of the port (0 for NULL) and the index of the matched DNET entry  *)
(* of that port (0 when the port's own network matched).                  *)
RECURSIVE dnet_find_from(_, _, _)
dnet_find_from(table, i, net) ==
    IF i > Len(table) THEN [port |-> 0, dnet |-> 0]
    ELSE IF net = table[i].net THEN [port |-> i, dnet |-> 0]
    ELSE IF dnets_index(table[i].dnets, 1, net) # 0
         THEN [port |-> i, dnet |-> dnets_index(table[i].dnets, 1, net)]
    ELSE dnet_find_from(table, i + 1, net)

(* the port dnet_find returns *)
dnet_find(table, net) == dnet_find_from(table, 1, net).port

(* dnet_find that also hands out the MAC of a port whose network matched *)
dnet_find_addr_port_mac(table, net, addr) ==
    LET f == dnet_find_from(table, 1, net) IN
    IF f.port # 0
    THEN IF f.dnet # 0
         THEN [addr EXCEPT !.mac = table[f.port].dnets[f.dnet].mac]
         ELSE [addr EXCEPT !.mac = table[f.port].mac]
    ELSE addr

(* the caller's addr after dnet_find(net, addr): mac and mac_len are       *)
(* overwritten only when a DNET entry matched                              *)
dnet_find_addr(table, net, addr) ==
    LET f == dnet_find_from(table, 1, net) IN
    IF f.port # 0 /\ f.dnet # 0
    THEN [addr EXCEPT !.mac = table[f.port].dnets[f.dnet].mac]
    ELSE addr

(* port_find: index of the first port whose own network is snet, 0 if none *)
RECURSIVE port_find_from(_, _, _)
port_find_from(table, i, snet) ==
    IF i > Len(table) THEN 0
    ELSE IF table[i].net = snet THEN i
    ELSE port_find_from(table, i + 1, snet)

port_find(table, snet) == port_find_from(table, 1, snet)

(* port_add: append a port unless the network is already in the table *)
port_add(table, snet, addr) ==
    IF dnet_find(table, snet) # 0 THEN table
    ELSE Append(table, [Port(snet, addr.mac) EXCEPT !.enabled = TRUE])

(* dnet_add that looks for net only in the DNET list of its own port *)
dnet_add_own_list_only(table, snet, net, addr) ==
    LET port == dnet_find(table, snet) IN
    IF port = 0 THEN table
    ELSE IF dnets_index(table[port].dnets, 1, net) # 0 THEN table
    ELSE [table EXCEPT ![port].dnets = Append(@, Dnet(net, addr.mac))]

(* dnet_add that takes the new address for a net it already holds *)
dnet_add_overwrite(table, snet, net, addr) ==
    LET f == dnet_find_from(table, 1, net)
        port == dnet_find(table, snet)
    IN  IF f.port # 0
        THEN IF f.dnet # 0
             THEN [table EXCEPT ![f.port].dnets[f.dnet].mac = addr.mac]
             ELSE table
        ELSE IF port = 0 THEN table
        ELSE [table EXCEPT ![port].dnets = Append(@, Dnet(net, addr.mac))]

(* dnet_add that puts the new entry at the head of the port's DNET list *)
dnet_add_at_head(table, snet, net, addr) ==
    IF dnet_find(table, net) # 0 THEN table
    ELSE LET port == dnet_find(table, snet) IN
         IF port = 0 THEN table
         ELSE [table EXCEPT ![port].dnets = <<Dnet(net, addr.mac)>> \o @]

(* dnet_add: append net to the DNET list of the port dnet_find gives for   *)
(* snet, unless net is already in the table                                *)
dnet_add(table, snet, net, addr) ==
    IF dnet_find(table, net) # 0 THEN table
    ELSE LET port == dnet_find(table, snet) IN
         IF port = 0 THEN table
         ELSE IF dnets_index(table[port].dnets, 1, net) # 0 THEN table
         ELSE [table EXCEPT ![port].dnets = Append(@, Dnet(net, addr.mac))]

-----------------------------------------------------------------------------
(* NPDU codec: bacnet/npdu.c, not part of src/; written from section 4.A   *)
(* and the wire format of section 6 of the specification                   *)

Bit(b, octet) == (octet \div b) % 2 = 1

NpduData(nlm, type, hop, der, prio) ==
    [protocol_version |-> BACNET_PROTOCOL_VERSION,
     network_layer_message |-> nlm,
     network_message_type |-> type,
     hop_count |-> hop,
     data_expecting_reply |-> der,
     priority |-> prio]

(* npdu_encode_npdu_network: the NPCI of a network layer message we send *)
npdu_encode_npdu_network(type, der, prio) ==
    NpduData(TRUE, type, HOP_COUNT_DEFAULT, der, prio)

(* the control octet *)
npdu_control(dest, src, npdu_data) ==
    (IF npdu_data.network_layer_message THEN 128 ELSE 0)
    + (IF dest.net > 0 THEN 32 ELSE 0)
    + (IF src.net > 0 /\ Len(src.adr) > 0 THEN 8 ELSE 0)
    + (IF npdu_data.data_expecting_reply THEN 4 ELSE 0)
    + (npdu_data.priority % 4)

(* npdu_encode_pdu: version, control, [DNET DLEN DADR], [SNET SLEN SADR],  *)
(* [hop count], [message type].  A NULL or net 0 address is left out.      *)
npdu_encode_pdu(dest, src, npdu_data) ==
    <<npdu_data.protocol_version, npdu_control(dest, src, npdu_data)>>
    \o (IF dest.net > 0
        THEN encode_unsigned16(dest.net) \o <<Len(dest.adr)>> \o dest.adr
        ELSE <<>>)
    \o (IF src.net > 0 /\ Len(src.adr) > 0
        THEN encode_unsigned16(src.net) \o <<Len(src.adr)>> \o src.adr
        ELSE <<>>)
    \o (IF dest.net > 0 THEN <<npdu_data.hop_count>> ELSE <<>>)
    \o (IF npdu_data.network_layer_message
        THEN <<npdu_data.network_message_type>> ELSE <<>>)

(* bacnet_npdu_decode of the first pdu_len octets of pdu; src is the       *)
(* caller's address, whose mac the datalink filled in.  offset is the      *)
(* index of the first octet past the NPCI, or -1 for a decode error.       *)
DecodeError == [offset |-> -1, dest |-> ZeroAddress, src |-> ZeroAddress,
                npdu_data |-> NpduData(FALSE, 0, 0, FALSE, 0)]

(* an address triple (NET, LEN, ADR[LEN]) at offset o, when present *)
decode_triple(pdu, pdu_len, present, o) ==
    IF ~present THEN [ok |-> TRUE, net |-> 0, adr |-> <<>>, next |-> o]
    ELSE IF pdu_len < o + 3 THEN [ok |-> FALSE]
    ELSE IF At(pdu, o + 2) > MAX_MAC_LEN \/ pdu_len < o + 3 + At(pdu, o + 2)
    THEN [ok |-> FALSE]
    ELSE [ok |-> TRUE, net |-> decode_unsigned16(pdu, o),
          adr |-> SubSeq(pdu, o + 4, o + 3 + At(pdu, o + 2)),
          next |-> o + 3 + At(pdu, o + 2)]

(* a single octet at offset o, when present *)
decode_octet(pdu, pdu_len, present, o) ==
    IF ~present THEN [ok |-> TRUE, value |-> 0, next |-> o]
    ELSE IF pdu_len < o + 1 THEN [ok |-> FALSE]
    ELSE [ok |-> TRUE, value |-> At(pdu, o), next |-> o + 1]

decode_result(pdu, src, d, s, h, t) ==
    IF ~t.ok THEN DecodeError
    ELSE [offset |-> t.next,
          dest |-> Address(d.net, <<>>, d.adr),
          src |-> Address(s.net, src.mac, s.adr),
          npdu_data |->
            [NpduData(Bit(128, At(pdu, 1)), t.value, h.value,
                      Bit(4, At(pdu, 1)), At(pdu, 1) % 4)
             EXCEPT !.protocol_version = At(pdu, 0)]]

decode_after_hop(pdu, pdu_len, src, d, s, h) ==
    IF ~h.ok THEN DecodeError
    ELSE decode_result(pdu, src, d, s, h,
            decode_octet(pdu, pdu_len, Bit(128, At(pdu, 1)), h.next))

decode_after_src(pdu, pdu_len, src, d, s) ==
    IF ~s.ok THEN DecodeError
    ELSE decode_after_hop(pdu, pdu_len, src, d, s,
            decode_octet(pdu, pdu_len, Bit(32, At(pdu, 1)), s.next))

decode_after_dest(pdu, pdu_len, src, d) ==
    IF ~d.ok THEN DecodeError
    ELSE decode_after_src(pdu, pdu_len, src, d,
            decode_triple(pdu, pdu_len, Bit(8, At(pdu, 1)), d.next))

(* version, control, then destination, source, hop count (present with    *)
(* the destination) and message type (of a network layer message)         *)
bacnet_npdu_decode(pdu, pdu_len, src) ==
    IF pdu_len < 2 THEN DecodeError
    ELSE decode_after_dest(pdu, pdu_len, src,
            decode_triple(pdu, pdu_len, Bit(32, At(pdu, 1)), 2))

-----------------------------------------------------------------------------
(* Port abstraction.  A handler runs on a record                           *)
(*   st = [table, sent, apdus]                                             *)
(* of the routing table, the PDUs handed to the datalinks so far and the   *)
(* APDUs handed to apdu_handler so far.                                    *)

(* a broadcast address with network 0, the local network *)
datalink_get_local_broadcast_address == Address(0, <<>>, <<>>)

(* datalink_get_broadcast_address *)
datalink_get_broadcast_address == Address(BACNET_BROADCAST_NETWORK, <<>>, <<>>)

(* one call of bip_send_pdu / dlmstp_send_pdu *)
Sent(link, dest, npdu_data, pdu) ==
    [link |-> link, dest |-> dest, npdu_data |-> npdu_data, pdu |-> pdu]

(* datalink_send_pdu: the datalinks a PDU for port snet goes out on *)
datalink_links(snet) ==
    IF snet = 0 THEN <<"bip", "mstp">>
    ELSE IF snet = BIP_Net THEN <<"bip">>
    ELSE IF snet = MSTP_Net THEN <<"mstp">>
    ELSE <<>>

datalink_send_pdu(st, snet, dest, npdu_data, pdu) ==
    LET links == datalink_links(snet) IN
    [st EXCEPT !.sent =
        @ \o [k \in 1..Len(links) |-> Sent(links[k], dest, npdu_data, pdu)]]

-----------------------------------------------------------------------------
(* Emitters of network layer messages *)

(* the DNET list of one port, 2 octets each *)
RECURSIVE encode_dnets(_, _)
encode_dnets(dnets, j) ==
    IF j > Len(dnets) THEN <<>>
    ELSE encode_unsigned16(dnets[j].net) \o encode_dnets(dnets, j + 1)

(* the networks of every port, the source port included *)
RECURSIVE encode_all_networks(_, _, _)
encode_all_networks(table, i, snet) ==
    IF i > Len(table) THEN <<>>
    ELSE encode_unsigned16(table[i].net) \o encode_dnets(table[i].dnets, 1)
         \o encode_all_networks(table, i + 1, snet)

(* the networks of every port but snet, without their DNET lists *)
RECURSIVE encode_other_port_networks(_, _, _)
encode_other_port_networks(table, i, snet) ==
    IF i > Len(table) THEN <<>>
    ELSE (IF table[i].net # snet
          THEN encode_unsigned16(table[i].net) ELSE <<>>)
         \o encode_other_port_networks(table, i + 1, snet)

(* the networks of every port but snet, each port followed by its DNETs *)
RECURSIVE encode_other_networks(_, _, _)
encode_other_networks(table, i, snet) ==
    IF i > Len(table) THEN <<>>
    ELSE (IF table[i].net # snet
          THEN encode_unsigned16(table[i].net) \o encode_dnets(table[i].dnets, 1)
          ELSE <<>>)
         \o encode_other_networks(table, i + 1, snet)

send_i_am_router_to_network(st, snet, net) ==
    LET dest == datalink_get_broadcast_address
        npdu_data == npdu_encode_npdu_network(
            NETWORK_MESSAGE_I_AM_ROUTER_TO_NETWORK, FALSE, 0)
        body == IF net # 0 THEN encode_unsigned16(net)
                ELSE encode_other_networks(st.table, 1, snet)
    IN  datalink_send_pdu(st, snet, dest, npdu_data,
            npdu_encode_pdu(dest, NoAddress, npdu_data) \o body)

(* per port: 2-octet network, port id counting from 1, info length 0 *)
RECURSIVE encode_ports(_, _, _)
encode_ports(table, i, port_id) ==
    IF i > Len(table) THEN <<>>
    ELSE encode_unsigned16(table[i].net) \o <<U8(port_id), 0>>
         \o encode_ports(table, i + 1, port_id + 1)

(* the parameter snet of send_initialize_routing_table_ack is a uint8_t *)
send_initialize_routing_table_ack(st, snet, dst) ==
    LET snet8 == U8(snet)
        dest == IF dst # NoAddress THEN dst ELSE datalink_get_broadcast_address
        npdu_data == npdu_encode_npdu_network(
            NETWORK_MESSAGE_INIT_RT_TABLE_ACK, FALSE, 0)
        count == U8(Len(st.table))
        body == <<count>>
                \o (IF count > 0 THEN encode_ports(st.table, 1, 1) ELSE <<>>)
    IN  datalink_send_pdu(st, snet8, dest, npdu_data,
            npdu_encode_pdu(dest, NoAddress, npdu_data) \o body)

(* a reject that is broadcast instead of sent to dst *)
send_reject_message_broadcast(st, snet, dst, reject_reason, dnet) ==
    LET dest == datalink_get_broadcast_address
        npdu_data == npdu_encode_npdu_network(
            NETWORK_MESSAGE_REJECT_MESSAGE_TO_NETWORK, FALSE, 0)
        body == <<reject_reason>>
                \o (IF dnet # 0 THEN encode_unsigned16(dnet) ELSE <<>>)
    IN  datalink_send_pdu(st, snet, dest, npdu_data,
            npdu_encode_pdu(dest, NoAddress, npdu_data) \o body)

send_reject_message_to_network(st, snet, dst, reject_reason, dnet) ==
    LET dest == IF dst # NoAddress THEN dst ELSE datalink_get_broadcast_address
        npdu_data == npdu_encode_npdu_network(
            NETWORK_MESSAGE_REJECT_MESSAGE_TO_NETWORK, FALSE, 0)
        body == <<reject_reason>>
                \o (IF dnet # 0 THEN encode_unsigned16(dnet) ELSE <<>>)
    IN  datalink_send_pdu(st, snet, dest, npdu_data,
            npdu_encode_pdu(dest, NoAddress, npdu_data) \o body)

send_who_is_router_to_network(st, snet, dnet) ==
    LET dest == datalink_get_broadcast_address
        npdu_data == npdu_encode_npdu_network(
            NETWORK_MESSAGE_WHO_IS_ROUTER_TO_NETWORK, FALSE, 0)
        body == IF dnet # 0 THEN encode_unsigned16(dnet) ELSE <<>>
    IN  datalink_send_pdu(st, snet, dest, npdu_data,
            npdu_encode_pdu(dest, NoAddress, npdu_data) \o body)

-----------------------------------------------------------------------------
(* Network layer control messages *)

(* discover the next router: Who-Is-Router-To-Network out of every port    *)
(* but snet, from port i on                                               *)
RECURSIVE who_is_to_other_ports(_, _, _, _)
who_is_to_other_ports(st, i, snet, network) ==
    IF i > Len(st.table) THEN st
    ELSE who_is_to_other_ports(
            IF st.table[i].net # snet
            THEN send_who_is_router_to_network(st, st.table[i].net, network)
            ELSE st,
            i + 1, snet, network)

who_is_router_to_network_handler(st, snet, npdu, npdu_len) ==
    IF npdu_len >= 2
    THEN LET network == decode_unsigned16(npdu, 0)
             port == dnet_find(st.table, network)
         IN  IF port # 0
             THEN IF st.table[port].net # snet
                  THEN send_i_am_router_to_network(st, snet, network)
                  ELSE st
             ELSE who_is_to_other_ports(st, 1, snet, network)
    ELSE send_i_am_router_to_network(st, snet, 0)

(* I-Am-Router-To-Network that takes the first network only *)
i_am_router_first_network(table, snet, src, npdu, npdu_offset, npdu_len, len) ==
    IF npdu_len >= len
    THEN dnet_add(table, snet, decode_unsigned16(npdu, npdu_offset), src)
    ELSE table

(* I-Am-Router-To-Network: while (npdu_len >= len) add the next DNET *)
RECURSIVE i_am_router_networks(_, _, _, _, _, _, _)
i_am_router_networks(table, snet, src, npdu, npdu_offset, npdu_len, len) ==
    IF npdu_len >= len
    THEN i_am_router_networks(
            dnet_add(table, snet, decode_unsigned16(npdu, npdu_offset), src),
            snet, src, npdu, U16(npdu_offset + 2), U16(npdu_len - 2), 2)
    ELSE table

(* Initialize-Routing-Table with a list: while (net_count--), with the     *)
(* cursor i set to 1 at the top of every round                             *)
RECURSIVE init_rt_table_entries(_, _, _, _, _)
init_rt_table_entries(table, snet, src, npdu, net_count) ==
    IF net_count = 0 THEN table
    ELSE LET i == 1
             dnet == decode_unsigned16(npdu, i)
             next_i == IF At(npdu, i + 3) > 0 THEN At(npdu, i + 3) + 4
                       ELSE i + 4
         IN  init_rt_table_entries(
                dnet_add(table, snet, dnet, src), snet, src, npdu,
                net_count - 1)

(* network_control_handler without the cases of the connection messages, *)
(* which then fall to the default case                                   *)
network_control_handler_rejects_connections(st, snet, src, npdu_data, npdu, npdu_len) ==
    LET type == npdu_data.network_message_type IN
    CASE type = NETWORK_MESSAGE_WHO_IS_ROUTER_TO_NETWORK ->
            who_is_router_to_network_handler(st, snet, npdu, npdu_len)
      [] type = NETWORK_MESSAGE_I_AM_ROUTER_TO_NETWORK ->
            [st EXCEPT !.table =
                i_am_router_networks(@, snet, src, npdu, 0, npdu_len, 2)]
      [] type = NETWORK_MESSAGE_I_COULD_BE_ROUTER_TO_NETWORK -> st
      [] type = NETWORK_MESSAGE_REJECT_MESSAGE_TO_NETWORK -> st
      [] type = NETWORK_MESSAGE_ROUTER_BUSY_TO_NETWORK -> st
      [] type = NETWORK_MESSAGE_ROUTER_AVAILABLE_TO_NETWORK -> st
      [] type = NETWORK_MESSAGE_INIT_RT_TABLE ->
            IF npdu_len > 0
            THEN IF At(npdu, 0) = 0
                 THEN send_initialize_routing_table_ack(st, snet, NoAddress)
                 ELSE send_initialize_routing_table_ack(
                        [st EXCEPT !.table = init_rt_table_entries(
                            @, snet, src, npdu, At(npdu, 0))],
                        snet, NoAddress)
            ELSE st
      [] type = NETWORK_MESSAGE_INIT_RT_TABLE_ACK -> st
      [] OTHER ->
            send_reject_message_to_network(
                st, snet, src, NETWORK_REJECT_UNKNOWN_MESSAGE_TYPE, 0)

network_control_handler(st, snet, src, npdu_data, npdu, npdu_len) ==
    LET type == npdu_data.network_message_type IN
    CASE type = NETWORK_MESSAGE_WHO_IS_ROUTER_TO_NETWORK ->
            who_is_router_to_network_handler(st, snet, npdu, npdu_len)
      [] type = NETWORK_MESSAGE_I_AM_ROUTER_TO_NETWORK ->
            [st EXCEPT !.table =
                i_am_router_networks(@, snet, src, npdu, 0, npdu_len, 2)]
      [] type = NETWORK_MESSAGE_I_COULD_BE_ROUTER_TO_NETWORK -> st
      [] type = NETWORK_MESSAGE_REJECT_MESSAGE_TO_NETWORK -> st
      [] type = NETWORK_MESSAGE_ROUTER_BUSY_TO_NETWORK -> st
      [] type = NETWORK_MESSAGE_ROUTER_AVAILABLE_TO_NETWORK -> st
      [] type = NETWORK_MESSAGE_INIT_RT_TABLE ->
            IF npdu_len > 0
            THEN IF At(npdu, 0) = 0
                 THEN send_initialize_routing_table_ack(st, snet, NoAddress)
                 ELSE send_initialize_routing_table_ack(
                        [st EXCEPT !.table = init_rt_table_entries(
                            @, snet, src, npdu, At(npdu, 0))],
                        snet, NoAddress)
            ELSE st
      [] type = NETWORK_MESSAGE_INIT_RT_TABLE_ACK -> st
      [] type = NETWORK_MESSAGE_ESTABLISH_CONNECTION_TO_NETWORK -> st
      [] type = NETWORK_MESSAGE_DISCONNECT_CONNECTION_TO_NETWORK -> st
      [] OTHER ->
            send_reject_message_to_network(
                st, snet, src, NETWORK_REJECT_UNKNOWN_MESSAGE_TYPE, 0)

-----------------------------------------------------------------------------
(* Routed APDUs *)

(* routed_src_address that learns no route *)
routed_src_table_unchanged(table, snet, src) == table

(* routed_src_address: the table after learning the route to src->net, and *)
(* router_src.  router_src is written only when snet is a port; every      *)
(* caller passes the network of the port the frame came in on.             *)
routed_src_table(table, snet, src) ==
    IF port_find(table, snet) # 0 /\ src.net # 0
    THEN dnet_add(table, snet, src.net, src)
    ELSE table

(* router_src with the router's own MAC as SADR of a local source *)
routed_src_address_own_mac(table, snet, src) ==
    LET port == port_find(table, snet) IN
    IF port # 0
    THEN IF src.net # 0
         THEN Address(src.net, table[port].mac, src.adr)
         ELSE Address(snet, table[port].mac, table[port].mac)
    ELSE NoAddress

routed_src_address(table, snet, src) ==
    LET port == port_find(table, snet) IN
    IF port # 0
    THEN IF src.net # 0
         THEN Address(src.net, table[port].mac, src.adr)
         ELSE Address(snet, table[port].mac, src.mac)
    ELSE NoAddress

(* npdu->hop_count-- on a uint8_t *)
hop_count_decrement(npdu_data) ==
    [npdu_data EXCEPT !.hop_count = U8(@ + 255)]

(* send one PDU out of every port, the source port included *)
RECURSIVE send_to_all_ports(_, _, _, _, _, _)
send_to_all_ports(st, i, snet, dest, npdu_data, pdu) ==
    IF i > Len(st.table) THEN st
    ELSE send_to_all_ports(
            datalink_send_pdu(st, st.table[i].net, dest, npdu_data, pdu),
            i + 1, snet, dest, npdu_data, pdu)

(* send one PDU out of every port but snet, from port i on *)
RECURSIVE send_to_other_ports(_, _, _, _, _, _)
send_to_other_ports(st, i, snet, dest, npdu_data, pdu) ==
    IF i > Len(st.table) THEN st
    ELSE send_to_other_ports(
            IF st.table[i].net # snet
            THEN datalink_send_pdu(st, st.table[i].net, dest, npdu_data, pdu)
            ELSE st,
            i + 1, snet, dest, npdu_data, pdu)

(* routed_apdu_handler that leaves DNET and DADR in the NPCI of a frame    *)
(* for a directly connected network                                        *)
routed_apdu_handler_keeps_dnet(st, snet, npdu_data, src, dest, apdu) ==
    LET npdu == hop_count_decrement(npdu_data)
        router_src == routed_src_address(st.table, snet, src)
        learned == [st EXCEPT !.table = routed_src_table(@, snet, src)]
    IN
    IF dest.net = BACNET_BROADCAST_NETWORK
    THEN LET local_dest == datalink_get_broadcast_address IN
         send_to_other_ports(learned, 1, snet, local_dest, npdu,
            npdu_encode_pdu(local_dest, router_src, npdu) \o apdu)
    ELSE
    LET port == dnet_find(st.table, dest.net)
        remote_dest == dnet_find_addr(st.table, dest.net, dest)
    IN
    IF port # 0
    THEN IF st.table[port].net = dest.net
         THEN LET local_dest == Address(dest.net, dest.adr, dest.adr) IN
              datalink_send_pdu(learned, st.table[port].net, local_dest, npdu,
                npdu_encode_pdu(local_dest, router_src, npdu) \o apdu)
         ELSE datalink_send_pdu(learned, st.table[port].net, remote_dest, npdu,
                npdu_encode_pdu(remote_dest, router_src, npdu) \o apdu)
    ELSE IF dest.net # 0
    THEN LET bdest == [dest EXCEPT !.mac = <<>>] IN
         send_who_is_router_to_network(
            send_to_other_ports(learned, 1, snet, bdest, npdu,
                npdu_encode_pdu(bdest, router_src, npdu) \o apdu),
            0, dest.net)
    ELSE st

routed_apdu_handler(st, snet, npdu_data, src, dest, apdu) ==
    LET npdu == hop_count_decrement(npdu_data)
        router_src == routed_src_address(st.table, snet, src)
        learned == [st EXCEPT !.table = routed_src_table(@, snet, src)]
    IN
    IF dest.net = BACNET_BROADCAST_NETWORK
    THEN LET local_dest == datalink_get_broadcast_address IN
         send_to_other_ports(learned, 1, snet, local_dest, npdu,
            npdu_encode_pdu(local_dest, router_src, npdu) \o apdu)
    ELSE
    LET port == dnet_find(st.table, dest.net)
        remote_dest == dnet_find_addr(st.table, dest.net, dest)
    IN
    IF port # 0
    THEN IF st.table[port].net = dest.net
         THEN LET local_dest == Address(0, dest.adr, <<>>) IN
              datalink_send_pdu(learned, st.table[port].net, local_dest, npdu,
                npdu_encode_pdu(local_dest, router_src, npdu) \o apdu)
         ELSE datalink_send_pdu(learned, st.table[port].net, remote_dest, npdu,
                npdu_encode_pdu(remote_dest, router_src, npdu) \o apdu)
    ELSE IF dest.net # 0
    THEN LET bdest == [dest EXCEPT !.mac = <<>>] IN
         send_who_is_router_to_network(
            send_to_other_ports(learned, 1, snet, bdest, npdu,
                npdu_encode_pdu(bdest, router_src, npdu) \o apdu),
            0, dest.net)
    ELSE st

(* apdu_handler: the application layer, outside the router *)
apdu_handler(st, src, apdu) ==
    [st EXCEPT !.apdus = Append(@, [src |-> src, apdu |-> apdu])]

(* an APDU is looked at only when it has hops left *)
hops_left_only(dest, npdu_data) == npdu_data.hop_count > 1

(* an APDU is looked at when it is for us, a broadcast, or has hops left *)
hops_left(dest, npdu_data) ==
    dest.net = 0 \/ dest.net = BACNET_BROADCAST_NETWORK
    \/ npdu_data.hop_count > 1

(* the PDU type compared without the 0xF0 mask *)
confirmed_broadcast_unmasked(dest, buffer, apdu_offset) ==
    /\ dest.net = BACNET_BROADCAST_NETWORK
    /\ At(buffer, apdu_offset) = PDU_TYPE_CONFIRMED_SERVICE_REQUEST

(* 5.4.5.1 ConfirmedBroadcastReceived: (pdu[apdu_offset] & 0xF0) is the    *)
(* PDU type of a confirmed service request                                *)
confirmed_broadcast(dest, buffer, apdu_offset) ==
    /\ dest.net = BACNET_BROADCAST_NETWORK
    /\ At(buffer, apdu_offset) \div 16
       = PDU_TYPE_CONFIRMED_SERVICE_REQUEST \div 16

(* my_routing_npdu_handler without the test of the protocol version *)
my_routing_npdu_handler_any_version(table, snet, src0, buffer, pdu_len) ==
    LET st == [table |-> table, sent |-> <<>>, apdus |-> <<>>]
        d == bacnet_npdu_decode(buffer, pdu_len, src0)
        apdu_offset == d.offset
        dest == d.dest
        src == d.src
        apdu == SubSeq(buffer, apdu_offset + 1, pdu_len)
    IN
    IF apdu_offset <= 0 THEN st
    ELSE IF d.npdu_data.network_layer_message
    THEN IF dest.net = 0 \/ dest.net = BACNET_BROADCAST_NETWORK
         THEN network_control_handler(st, snet, src, d.npdu_data,
                From(buffer, apdu_offset), U16(pdu_len - apdu_offset))
         ELSE st
    ELSE IF apdu_offset > 0 /\ apdu_offset <= pdu_len
    THEN IF hops_left(dest, d.npdu_data)
         THEN IF confirmed_broadcast(dest, buffer, apdu_offset)
              THEN st
              ELSE LET routed == routed_apdu_handler(
                        st, snet, d.npdu_data, src, dest, apdu)
                   IN  IF dest.net = 0 \/ dest.net = BACNET_BROADCAST_NETWORK
                       THEN apdu_handler(routed, src, apdu)
                       ELSE routed
         ELSE st
    ELSE st

(* my_routing_npdu_handler that runs the control handler on a network     *)
(* layer message whatever its DNET                                        *)
my_routing_npdu_handler_any_dnet(table, snet, src0, buffer, pdu_len) ==
    LET st == [table |-> table, sent |-> <<>>, apdus |-> <<>>] IN
    IF At(buffer, 0) # BACNET_PROTOCOL_VERSION THEN st
    ELSE
    LET d == bacnet_npdu_decode(buffer, pdu_len, src0)
        apdu_offset == d.offset
        dest == d.dest
        src == d.src
        apdu == SubSeq(buffer, apdu_offset + 1, pdu_len)
    IN
    IF apdu_offset <= 0 THEN st
    ELSE IF d.npdu_data.network_layer_message
    THEN network_control_handler(st, snet, src, d.npdu_data,
            From(buffer, apdu_offset), U16(pdu_len - apdu_offset))
    ELSE IF apdu_offset > 0 /\ apdu_offset <= pdu_len
    THEN IF hops_left(dest, d.npdu_data)
         THEN IF confirmed_broadcast(dest, buffer, apdu_offset)
              THEN st
              ELSE LET routed == routed_apdu_handler(
                        st, snet, d.npdu_data, src, dest, apdu)
                   IN  IF dest.net = 0 \/ dest.net = BACNET_BROADCAST_NETWORK
                       THEN apdu_handler(routed, src, apdu)
                       ELSE routed
         ELSE st
    ELSE st

(* my_routing_npdu_handler on the first pdu_len octets of buffer *)
my_routing_npdu_handler(table, snet, src0, buffer, pdu_len) ==
    LET st == [table |-> table, sent |-> <<>>, apdus |-> <<>>] IN
    IF At(buffer, 0) # BACNET_PROTOCOL_VERSION THEN st
    ELSE
    LET d == bacnet_npdu_decode(buffer, pdu_len, src0)
        apdu_offset == d.offset
        dest == d.dest
        src == d.src
        apdu == SubSeq(buffer, apdu_offset + 1, pdu_len)
    IN
    IF apdu_offset <= 0 THEN st
    ELSE IF d.npdu_data.network_layer_message
    THEN IF dest.net = 0 \/ dest.net = BACNET_BROADCAST_NETWORK
         THEN network_control_handler(st, snet, src, d.npdu_data,
                From(buffer, apdu_offset), U16(pdu_len - apdu_offset))
         ELSE st
    ELSE IF apdu_offset > 0 /\ apdu_offset <= pdu_len
    THEN IF hops_left(dest, d.npdu_data)
         THEN IF confirmed_broadcast(dest, buffer, apdu_offset)
              THEN st
              ELSE LET routed == routed_apdu_handler(
                        st, snet, d.npdu_data, src, dest, apdu)
                   IN  IF dest.net = 0 \/ dest.net = BACNET_BROADCAST_NETWORK
                       THEN apdu_handler(routed, src, apdu)
                       ELSE routed
         ELSE st
    ELSE st

-----------------------------------------------------------------------------
(* Configuration and received frames: the inputs of the model *)

(* BACNET_IP_NET and BACNET_MSTP_NET: two distinct network numbers in      *)
(* 1..65534; the defaults are 1 and 2.  The low 8 bits of 258 are the      *)
(* other port's network and those of 256 are 0.                            *)
NetConfigs == {<<1, 2>>, <<258, 2>>, <<256, 2>>}

(* the datalinks' own addresses: bip_get_my_address, dlmstp_get_my_address *)
BIP_Address == Address(0, <<192, 168, 0, 1, 186, 192>>, <<>>)

MSTP_Address == Address(0, <<127>>, <<>>)

Links == {"bip", "mstp"}

(* MAC addresses of the senders on a link *)
MacA == <<170, 187>>

MacB == <<204>>

(* content of the receive buffer behind the received octets *)
ZeroTail == <<0, 0, 0, 0, 0>>

StaleTails == {ZeroTail, <<0, 5, 0, 0, 0>>, <<16, 8, 0, 0, 0>>}

Frame(mac, pdu, tail) == [mac |-> mac, pdu |-> pdu, tail |-> tail]

(* a well-formed NPCI of a network layer message *)
NetworkHeader(dnet, snet, sadr, type) ==
    npdu_encode_pdu(Address(dnet, <<>>, <<>>), Address(snet, <<>>, sadr),
                    NpduData(TRUE, type, HOP_COUNT_DEFAULT, FALSE, 0))

(* a well-formed NPCI of an APDU *)
ApduHeader(dnet, dadr, snet, sadr, hop) ==
    npdu_encode_pdu(Address(dnet, <<>>, dadr), Address(snet, <<>>, sadr),
                    NpduData(FALSE, 0, hop, FALSE, 0))

Networks(nets) ==
    IF Len(nets) = 0 THEN <<>>
    ELSE IF Len(nets) = 1 THEN encode_unsigned16(nets[1])
    ELSE encode_unsigned16(nets[1]) \o encode_unsigned16(nets[2])

WhoIsBodies ==
    {<<>>, <<0>>}
    \cup {encode_unsigned16(n) :
            n \in {0, 5, 6, 99, BIP_Net, MSTP_Net, BACNET_BROADCAST_NETWORK}}

IAmBodies ==
    {Networks(l) : l \in {<<>>, <<5>>, <<5, 6>>, <<0>>, <<BIP_Net>>,
                          <<BACNET_BROADCAST_NETWORK>>}}
    \cup {<<0, 5, 0>>}

InitRtBodies ==
    {<<>>, <<0>>, <<1>>, <<1, 0, 5, 1, 0>>, <<2, 0, 5, 1, 0, 0, 6, 2, 0>>,
     <<1, 0, 5, 1, 2, 7, 7>>, <<2, 0, 5, 1, 0>>}

IgnoredMessages ==
    {<<NETWORK_MESSAGE_I_COULD_BE_ROUTER_TO_NETWORK, 0, 5, 0>>,
     <<NETWORK_MESSAGE_REJECT_MESSAGE_TO_NETWORK, 1, 0, 5>>,
     <<NETWORK_MESSAGE_ROUTER_BUSY_TO_NETWORK>>,
     <<NETWORK_MESSAGE_ROUTER_AVAILABLE_TO_NETWORK>>,
     <<NETWORK_MESSAGE_INIT_RT_TABLE_ACK, 0>>,
     <<NETWORK_MESSAGE_ESTABLISH_CONNECTION_TO_NETWORK, 0, 5, 0>>,
     <<NETWORK_MESSAGE_DISCONNECT_CONNECTION_TO_NETWORK, 0, 5>>}

UnknownMessageTypes == {10, 127}

(* network layer messages without DNET and SNET *)
LocalNetworkFrames ==
    {Frame(MacA, NetworkHeader(0, 0, <<>>, 0)
                 \o b, ZeroTail) : b \in WhoIsBodies}
    \cup {Frame(m, NetworkHeader(0, 0, <<>>, 1) \o b, ZeroTail) :
            m \in {MacA, MacB}, b \in IAmBodies}
    \cup {Frame(m, NetworkHeader(0, 0, <<>>, 6) \o b, ZeroTail) :
            m \in {MacA, MacB}, b \in InitRtBodies}
    \cup {Frame(MacA, NetworkHeader(0, 0, <<>>, 6) \o <<1>>, t) :
            t \in {t \in StaleTails : t[1] = 0}}
    \cup {Frame(MacA, <<1, 128>> \o b, ZeroTail) : b \in IgnoredMessages}
    \cup {Frame(MacA, NetworkHeader(0, 0, <<>>, t), ZeroTail) :
            t \in UnknownMessageTypes}

(* network layer messages with a DNET (global broadcast, network 5) or     *)
(* with the SNET and SADR of a message that was routed already             *)
RoutedNetworkFrames ==
    {Frame(MacA, NetworkHeader(h[1], h[2], h[3], b[1]) \o Tail(b), ZeroTail) :
        h \in {<<BACNET_BROADCAST_NETWORK, 0, <<>> >>, <<5, 0, <<>> >>,
               <<0, 6, <<13>> >>},
        b \in {<<0>>, <<0, 0, 6>>, <<1, 0, 5>>, <<6, 0>>, <<127>>}}

UnconfirmedApdu == <<16, 8>>

(* a confirmed request, segmented response accepted *)
ConfirmedApdu == <<2, 5>>

HopCounts == {0, 1, 2, 10}

ApduFrames ==
    \* no DNET: a local frame
    {Frame(MacA, ApduHeader(0, <<>>, s[1], s[2], 0) \o a, ZeroTail) :
        s \in {<<0, <<>> >>, <<6, <<13>> >>},
        a \in {UnconfirmedApdu, ConfirmedApdu}}
    \* global broadcast
    \cup {Frame(MacA, ApduHeader(BACNET_BROADCAST_NETWORK, <<>>, 0, <<>>, h)
                      \o a, ZeroTail) :
            h \in HopCounts, a \in {UnconfirmedApdu, ConfirmedApdu}}
    \cup {Frame(MacA, ApduHeader(BACNET_BROADCAST_NETWORK, <<>>, 0, <<>>, 10),
                t) : t \in {t \in StaleTails : t[2] # 5}}
    \* a specific DNET: a port's network, a remote network, an unknown one
    \cup {Frame(MacA, ApduHeader(d, <<204>>, 0, <<>>, h) \o UnconfirmedApdu,
                ZeroTail) :
            d \in {BIP_Net, MSTP_Net, 5, 99}, h \in HopCounts}
    \* routed already: SNET and SADR present
    \cup {Frame(MacB, ApduHeader(d, <<204>>, 6, <<13>>, 10)
                      \o UnconfirmedApdu, ZeroTail) :
            d \in {BACNET_BROADCAST_NETWORK, BIP_Net, MSTP_Net, 5, 99}}

(* frames bacnet_npdu_decode or the version check refuses *)
BadFrames ==
    {Frame(MacA, <<2, 0, 16, 8>>, ZeroTail),
     Frame(MacA, <<1>>, ZeroTail),
     Frame(MacA, <<1, 32, 0, 5>>, ZeroTail),
     Frame(MacA, <<1, 32, 0, 5, 8, 1, 2>>, ZeroTail)}

RxFrames ==
    LocalNetworkFrames \cup RoutedNetworkFrames \cup ApduFrames \cup BadFrames

-----------------------------------------------------------------------------
(* The program *)

NoFrame == [link |-> "none", snet |-> 0, mac |-> <<>>, pdu |-> <<>>,
            tail |-> <<>>, npci |-> DecodeError]

RECURSIVE remote_count(_, _)
remote_count(table, i) ==
    IF i > Len(table) THEN 0
    ELSE Len(table[i].dnets) + remote_count(table, i + 1)

Init ==
    /\ Router_Table_Head = <<>>
    /\ BIP_Net = 0
    /\ MSTP_Net = 0
    /\ pc = "boot"
    /\ rx = NoFrame
    /\ sent = <<>>
    /\ apdus = <<>>
    /\ before = <<>>

(* datalink_init: the two ports of the router *)
datalink_init ==
    /\ pc = "boot"
    /\ \E c \in NetConfigs :
        /\ BIP_Net' = c[1]
        /\ MSTP_Net' = c[2]
        /\ Router_Table_Head' =
            port_add(port_add(Router_Table_Head, c[1], BIP_Address),
                     c[2], MSTP_Address)
    /\ pc' = "idle"
    /\ UNCHANGED <<rx, sent, apdus, before>>

(* a frame from a datalink, handled by my_routing_npdu_handler *)
Receive ==
    /\ pc = "idle"
    /\ \E link \in Links, f \in RxFrames :
        LET snet == IF link = "bip" THEN BIP_Net ELSE MSTP_Net
            src == Address(0, f.mac, <<>>)
            st == my_routing_npdu_handler(
                    Router_Table_Head, snet, src, f.pdu \o f.tail, Len(f.pdu))
        IN  /\ remote_count(st.table, 1) <= MaxRemotes
            /\ rx' = [link |-> link, snet |-> snet, mac |-> f.mac,
                      pdu |-> f.pdu, tail |-> f.tail,
                      npci |-> bacnet_npdu_decode(
                                f.pdu \o f.tail, Len(f.pdu), src)]
            /\ Router_Table_Head' = st.table
            /\ sent' = st.sent
            /\ apdus' = st.apdus
            /\ before' = Router_Table_Head
    /\ pc' = "handled"
    /\ UNCHANGED <<BIP_Net, MSTP_Net>>

(* back in the main loop: the transmit and receive buffers are free again *)
Return ==
    /\ pc = "handled"
    /\ pc' = "idle"
    /\ rx' = NoFrame
    /\ sent' = <<>>
    /\ apdus' = <<>>
    /\ before' = <<>>
    /\ UNCHANGED <<Router_Table_Head, BIP_Net, MSTP_Net>>

Next == datalink_init \/ Receive \/ Return

Spec == Init /\ [][Next]_vars

-----------------------------------------------------------------------------
(* What the properties speak about: the frame just handled and the PDUs    *)
(* it caused                                                               *)

RxBuffer == rx.pdu \o rx.tail

(* the NPCI bacnet_npdu_decode found in the frame *)
RxNpdu == rx.npci

(* the frame was handled and its NPCI decoded *)
RxDecoded ==
    /\ pc = "handled"
    /\ At(RxBuffer, 0) = BACNET_PROTOCOL_VERSION
    /\ RxNpdu.offset > 0

(* the octets behind the NPCI *)
RxPayload == SubSeq(rx.pdu, RxNpdu.offset + 1, Len(rx.pdu))

RxIsApdu == RxDecoded /\ ~RxNpdu.npdu_data.network_layer_message

RxIsNetworkMessage == RxDecoded /\ RxNpdu.npdu_data.network_layer_message

(* a network layer message that is not addressed to a specific network *)
RxIsControl ==
    /\ RxIsNetworkMessage
    /\ RxNpdu.dest.net \in {0, BACNET_BROADCAST_NETWORK}

SentNpdu(e) == bacnet_npdu_decode(e.pdu, Len(e.pdu), ZeroAddress)

SentPayload(e) == SubSeq(e.pdu, SentNpdu(e).offset + 1, Len(e.pdu))

SentMessage(e, type) ==
    /\ e.npdu_data.network_layer_message
    /\ e.npdu_data.network_message_type = type

(* a copy of the received APDU *)
Forwarded(e) == ~e.npdu_data.network_layer_message

LinkNet(link) == IF link = "bip" THEN BIP_Net ELSE MSTP_Net

(* the network numbers of a table, in table order *)
RECURSIVE TableNets(_, _)
TableNets(table, i) ==
    IF i > Len(table) THEN <<>>
    ELSE <<table[i].net>>
         \o [j \in 1..Len(table[i].dnets) |-> table[i].dnets[j].net]
         \o TableNets(table, i + 1)

NetSet(table) ==
    LET l == TableNets(table, 1) IN {l[k] : k \in 1..Len(l)}

(* the networks reached through the port with network number net *)
PortNets(table, net) ==
    LET p == port_find(table, net) IN
    IF p = 0 THEN {}
    ELSE {net} \cup {table[p].dnets[j].net : j \in 1..Len(table[p].dnets)}

(* the 2-octet networks of a payload *)
PayloadNets(b) == {decode_unsigned16(b, 2 * k) : k \in 0..(Len(b) \div 2 - 1)}

-----------------------------------------------------------------------------
(* C1: every network number appears at most once across the port networks *)
(* and the remote networks of all ports.                                   *)
C1_Uniqueness ==
    LET l == TableNets(Router_Table_Head, 1) IN
    \A i, j \in 1..Len(l) : i # j => l[i] # l[j]

(* an I-Am-Router-To-Network naming a network the table already held, in   *)
(* a table with remote networks                                            *)
C1_Witness ==
    /\ RxIsControl
    /\ RxNpdu.npdu_data.network_message_type
        = NETWORK_MESSAGE_I_AM_ROUTER_TO_NETWORK
    /\ Len(RxPayload) >= 2
    /\ decode_unsigned16(RxPayload, 0) \in NetSet(before)
    /\ remote_count(before, 1) >= 1
    /\ Router_Table_Head = before

(* C2 (as claimed): neither 0 nor 0xFFFF is stored as a port network or as *)
(* a remote network.                                                       *)
C2_NoZeroNoBroadcastStored ==
    NetSet(Router_Table_Head) \cap {0, BACNET_BROADCAST_NETWORK} = {}

(* C3 (as claimed): an APDU that needs forwarding (DNET nonzero) and       *)
(* arrives with hop count 0 or 1 causes no emission.                       *)
C3_HopCountExhaustedDiscarded ==
    (RxIsApdu /\ RxNpdu.dest.net # 0 /\ RxNpdu.npdu_data.hop_count <= 1)
        => sent = <<>>

(* C4 (as claimed): every forwarded copy carries the received hop count    *)
(* minus one, as an integer.                                               *)
C4_HopCountMinusOne ==
    (RxIsApdu /\ RxNpdu.dest.net # 0)
        => \A k \in 1..Len(sent) :
            Forwarded(sent[k])
                => sent[k].npdu_data.hop_count
                    = RxNpdu.npdu_data.hop_count - 1

(* C5 (as claimed): no copy of a received APDU goes out on the port it     *)
(* arrived on.                                                             *)
C5_NotBackOnSourcePort ==
    RxIsApdu
        => \A k \in 1..Len(sent) :
            Forwarded(sent[k]) => sent[k].link # rx.link

(* C6: an I-Am-Router-To-Network sent on port p lists neither p's own      *)
(* network nor a remote network stored under p.                            *)
C6_LoopFreeAdvertisement ==
    pc = "handled"
        => \A k \in 1..Len(sent) :
            SentMessage(sent[k], NETWORK_MESSAGE_I_AM_ROUTER_TO_NETWORK)
                => PayloadNets(SentPayload(sent[k]))
                    \cap PortNets(Router_Table_Head, LinkNet(sent[k].link))
                    = {}

(* the answer to a Who-Is-Router-To-Network without a network: it lists a  *)
(* port and a remote network, while the source port has a remote network   *)
C6_Witness ==
    /\ RxIsControl
    /\ RxNpdu.npdu_data.network_message_type
        = NETWORK_MESSAGE_WHO_IS_ROUTER_TO_NETWORK
    /\ Len(RxPayload) < 2
    /\ Len(sent) = 1
    /\ SentMessage(sent[1], NETWORK_MESSAGE_I_AM_ROUTER_TO_NETWORK)
    /\ sent[1].link = rx.link
    /\ Len(SentPayload(sent[1])) >= 4
    /\ Cardinality(PortNets(Router_Table_Head, rx.snet)) >= 2

(* C7: a forwarded frame whose received source has net 0 carries in its    *)
(* NPCI the source port's network as SNET and the received MAC as SADR.    *)
C7_SourceRewriting ==
    (RxIsApdu /\ RxNpdu.src.net = 0)
        => \A k \in 1..Len(sent) :
            Forwarded(sent[k])
                => /\ SentNpdu(sent[k]).src.net = rx.snet
                   /\ SentNpdu(sent[k]).src.adr = rx.mac

C7_Witness ==
    /\ RxIsApdu
    /\ RxNpdu.src.net = 0
    /\ \E k \in 1..Len(sent) :
        /\ Forwarded(sent[k])
        /\ SentNpdu(sent[k]).src.net = rx.snet
        /\ SentNpdu(sent[k]).src.adr = rx.mac
        /\ Len(rx.mac) > 0

(* a confirmed service request sent to the global broadcast network *)
RxIsConfirmedBroadcast ==
    /\ RxIsApdu
    /\ RxNpdu.dest.net = BACNET_BROADCAST_NETWORK
    /\ Len(RxPayload) > 0
    /\ RxPayload[1] \div 16 = 0

(* C8: a confirmed service request to DNET 0xFFFF is dropped: not handed   *)
(* to the APDU handler, not sent on any port, the table unchanged.         *)
C8_ConfirmedBroadcastDropped ==
    RxIsConfirmedBroadcast
        => /\ apdus = <<>>
           /\ sent = <<>>
           /\ Router_Table_Head = before

C8_Witness ==
    /\ RxIsConfirmedBroadcast
    /\ RxNpdu.npdu_data.hop_count > 1
    /\ apdus = <<>>
    /\ sent = <<>>

(* a message type the control handler has no case for *)
RxIsUnknownMessage ==
    /\ RxIsNetworkMessage
    /\ RxNpdu.npdu_data.network_message_type \notin 0..9

(* exactly one Reject-Message-To-Network, reason 3 and nothing else, to    *)
(* the source of the frame, on the port it came from; the table unchanged  *)
RejectedAsUnknown ==
    /\ Len(sent) = 1
    /\ SentMessage(sent[1], NETWORK_MESSAGE_REJECT_MESSAGE_TO_NETWORK)
    /\ sent[1].link = rx.link
    /\ sent[1].dest = RxNpdu.src
    /\ SentNpdu(sent[1]).dest.net = RxNpdu.src.net
    /\ SentNpdu(sent[1]).dest.adr = RxNpdu.src.adr
    /\ SentPayload(sent[1]) = <<NETWORK_REJECT_UNKNOWN_MESSAGE_TYPE>>
    /\ apdus = <<>>
    /\ Router_Table_Head = before

(* C9 (as claimed): every decoded network layer message of an unknown type *)
(* is answered with one Reject-Message-To-Network, reason 3.               *)
C9_UnknownTypeRejected_AsClaimed == RxIsUnknownMessage => RejectedAsUnknown

(* C9 (amended): every decoded network layer message of an unknown type    *)
(* that carries no DNET or the broadcast DNET 0xFFFF is answered with one  *)
(* Reject-Message-To-Network, reason 3, to the source on the source port.  *)
C9_UnknownTypeRejected ==
    (RxIsUnknownMessage /\ RxIsControl) => RejectedAsUnknown

(* an unknown message type from a routed source is rejected *)
C9_Witness ==
    /\ RxIsUnknownMessage
    /\ RxIsControl
    /\ RxNpdu.src.net # 0
    /\ RejectedAsUnknown

(* C10 (as claimed, for the messages the control handler gets): a          *)
(* Who-Is-Router-To-Network for a network of the table is answered by one  *)
(* I-Am-Router-To-Network with just that network on the source port when   *)
(* another port owns it, and by nothing when the source port owns it.      *)
C10_WhoIsKnownNetwork ==
    (/\ RxIsControl
     /\ RxNpdu.npdu_data.network_message_type
        = NETWORK_MESSAGE_WHO_IS_ROUTER_TO_NETWORK
     /\ Len(RxPayload) >= 2
     /\ decode_unsigned16(RxPayload, 0) \in NetSet(before))
        => IF decode_unsigned16(RxPayload, 0) \in PortNets(before, rx.snet)
           THEN sent = <<>>
           ELSE /\ Len(sent) = 1
                /\ SentMessage(sent[1],
                               NETWORK_MESSAGE_I_AM_ROUTER_TO_NETWORK)
                /\ sent[1].link = rx.link
                /\ sent[1].dest.mac = <<>>
                /\ SentPayload(sent[1])
                    = encode_unsigned16(decode_unsigned16(RxPayload, 0))

-----------------------------------------------------------------------------
(* the frame just handled is this network layer message, not addressed to  *)
(* a specific network                                                      *)
RxIsMessage(type) ==
    /\ RxIsControl
    /\ RxNpdu.npdu_data.network_message_type = type

(* the 2-octet networks of a payload, in order *)
PayloadList(b) ==
    [k \in 1..(Len(b) \div 2) |-> decode_unsigned16(b, 2 * (k - 1))]

(* a broadcast of a network layer message *)
BroadcastMessage(e, type) ==
    /\ SentMessage(e, type)
    /\ e.dest.mac = <<>>
    /\ e.dest.net = BACNET_BROADCAST_NETWORK

(* the entries of sent that went out on a link *)
SentOn(link) == SelectSeq(sent, LAMBDA e : e.link = link)

(* C11 (as claimed): a Who-Is-Router-To-Network for a network that is not  *)
(* in the table is sent on, with that network as its payload, once on      *)
(* every port but the source port and not on the source port; the table    *)
(* is unchanged.                                                           *)
C11_WhoIsUnknownNetwork ==
    (/\ RxIsMessage(NETWORK_MESSAGE_WHO_IS_ROUTER_TO_NETWORK)
     /\ Len(RxPayload) >= 2
     /\ decode_unsigned16(RxPayload, 0) \notin NetSet(before))
        => /\ Router_Table_Head = before
           /\ SentOn(rx.link) = <<>>
           /\ \A link \in Links \ {rx.link} :
                /\ Len(SentOn(link)) = 1
                /\ BroadcastMessage(SentOn(link)[1],
                        NETWORK_MESSAGE_WHO_IS_ROUTER_TO_NETWORK)
                /\ SentPayload(SentOn(link)[1])
                    = encode_unsigned16(decode_unsigned16(RxPayload, 0))

(* the networks an I-Am-Router-To-Network(0) on the port with network snet *)
(* has to list: the other ports in table order, each with its remote       *)
(* networks                                                                *)
OtherNetworks(table, snet) ==
    TableNets(SelectSeq(table, LAMBDA q : q.net # snet), 1)

PortDnets(table, net) ==
    LET p == port_find(table, net) IN
    IF p = 0 THEN {}
    ELSE {table[p].dnets[j] : j \in 1..Len(table[p].dnets)}

(* the listed networks the table did not hold when the frame arrived *)
RxNewNetworks ==
    {n \in PayloadNets(RxPayload) : n \notin NetSet(before)}

StoredDnets(table) ==
    UNION {PortDnets(table, table[i].net) : i \in 1..Len(table)}

(* the networks the received I-Am-Router-To-Network lists, or the network  *)
(* of the first entry of the received Initialize-Routing-Table             *)
RxNamedNetworks ==
    IF RxIsMessage(NETWORK_MESSAGE_I_AM_ROUTER_TO_NETWORK)
    THEN PayloadNets(RxPayload)
    ELSE IF /\ RxIsMessage(NETWORK_MESSAGE_INIT_RT_TABLE)
            /\ Len(RxPayload) >= 5
            /\ RxPayload[1] > 0
    THEN {decode_unsigned16(RxPayload, 1)}
    ELSE {}

(* the named networks that were stored with another router's MAC *)
RxRenamedNetworks ==
    {n \in RxNamedNetworks :
        \E e \in StoredDnets(before) : e.net = n /\ e.mac # rx.mac}

(* C14 (as claimed): when an I-Am-Router-To-Network or an                  *)
(* Initialize-Routing-Table names a stored remote network and comes from   *)
(* another router MAC, the stored next hop becomes the new sender's MAC.   *)
C14_NextHopOverwritten ==
    \A n \in RxRenamedNetworks :
        \A e \in StoredDnets(Router_Table_Head) :
            e.net = n => e.mac = rx.mac

(* C15: adding a network number the table already holds, as a port or as a *)
(* remote network, leaves the whole table as it was: port_add and dnet_add *)
(* on any network of the table the main loop can see, and the receipt of   *)
(* an I-Am-Router-To-Network that lists known networks only.               *)
C15_AddPresentIsNoOp ==
    /\ pc = "idle" => \A n \in NetSet(Router_Table_Head) :
        \A a \in {BIP_Address, Address(0, MacA, <<>>), Address(0, MacB, <<>>)} :
            /\ port_add(Router_Table_Head, n, a) = Router_Table_Head
            /\ \A via \in NetSet(Router_Table_Head) :
                dnet_add(Router_Table_Head, via, n, a) = Router_Table_Head
    /\ (/\ RxIsMessage(NETWORK_MESSAGE_I_AM_ROUTER_TO_NETWORK)
        /\ PayloadNets(RxPayload) \subseteq NetSet(before))
            => Router_Table_Head = before

(* a network stored with one router's MAC is named again by another router *)
(* and the table stays as it was                                           *)
C15_Witness ==
    /\ RxIsMessage(NETWORK_MESSAGE_I_AM_ROUTER_TO_NETWORK)
    /\ RxRenamedNetworks # {}
    /\ PayloadNets(RxPayload) \subseteq NetSet(before)
    /\ Router_Table_Head = before

(* the payload of an Initialize-Routing-Table-Ack for a table: per port    *)
(* the 2-octet network, the port id i and the info length 0                *)
RECURSIVE AckEntries(_, _)
AckEntries(table, i) ==
    IF i > Len(table) THEN <<>>
    ELSE <<table[i].net \div 256, table[i].net % 256, i, 0>>
         \o AckEntries(table, i + 1)

(* C16 (as claimed): an Initialize-Routing-Table with count 0 is answered  *)
(* by exactly one Initialize-Routing-Table-Ack to the broadcast address,   *)
(* whose payload is the number of ports and then per port its network, its *)
(* port id 1, 2, ... and info length 0; the table is unchanged.            *)
C16_InitRtQuery ==
    (/\ RxIsMessage(NETWORK_MESSAGE_INIT_RT_TABLE)
     /\ Len(RxPayload) >= 1
     /\ RxPayload[1] = 0)
        => /\ Len(sent) = 1
           /\ BroadcastMessage(sent[1], NETWORK_MESSAGE_INIT_RT_TABLE_ACK)
           /\ SentPayload(sent[1]) = <<Len(before)>> \o AckEntries(before, 1)
           /\ Router_Table_Head = before

(* the entries of an Initialize-Routing-Table payload from offset i on:    *)
(* 2-octet DNET, port id, info length, info                                *)
RECURSIVE InitRtWellFormed(_, _, _)
InitRtWellFormed(b, i, n) ==
    IF n = 0 THEN i = Len(b)
    ELSE /\ i + 4 <= Len(b)
         /\ i + 4 + At(b, i + 3) <= Len(b)
         /\ InitRtWellFormed(b, i + 4 + At(b, i + 3), n - 1)

RECURSIVE InitRtNetworks(_, _, _)
InitRtNetworks(b, i, n) ==
    IF n = 0 THEN {}
    ELSE {decode_unsigned16(b, i)}
         \cup InitRtNetworks(b, i + 4 + At(b, i + 3), n - 1)

(* an Initialize-Routing-Table with N > 0 well-formed entries was handled *)
RxIsInitRtList ==
    /\ RxIsMessage(NETWORK_MESSAGE_INIT_RT_TABLE)
    /\ Len(RxPayload) >= 1
    /\ RxPayload[1] > 0
    /\ InitRtWellFormed(RxPayload, 1, RxPayload[1])

(* C17 (as claimed): after an Initialize-Routing-Table with N > 0          *)
(* well-formed entries the DNET of every entry that was not in the table   *)
(* is a remote network of the source port, and an                          *)
(* Initialize-Routing-Table-Ack is emitted.                                *)
C17_InitRtEveryEntry ==
    RxIsInitRtList
        => /\ \A n \in InitRtNetworks(RxPayload, 1, RxPayload[1]) :
                n \notin NetSet(before)
                    => Dnet(n, rx.mac)
                        \in PortDnets(Router_Table_Head, rx.snet)
           /\ sent # <<>>
           /\ \A k \in 1..Len(sent) :
                SentMessage(sent[k], NETWORK_MESSAGE_INIT_RT_TABLE_ACK)

(* the datalink of the port with network number net *)
LinkOf(net) == IF net = BIP_Net THEN "bip" ELSE "mstp"

(* an APDU with hops left was handled *)
RxIsRoutableApdu == RxIsApdu /\ RxNpdu.npdu_data.hop_count > 1

(* the octets behind the NPCI of an emitted PDU are those of the received  *)
(* frame                                                                   *)
CarriesRxApdu(e) == SentPayload(e) = RxPayload

(* C18 (as claimed): an APDU with hop count > 1 whose DNET is a remote     *)
(* network of port q with next hop h, arriving on another port, is emitted *)
(* exactly once, on q, to MAC h, with DNET and DADR kept in the NPCI and    *)
(* the hop count one less.                                                 *)
C18_IntermediateForward ==
    RxIsRoutableApdu
        => \A i \in 1..Len(before) :
            \A j \in 1..Len(before[i].dnets) :
                (/\ before[i].dnets[j].net = RxNpdu.dest.net
                 /\ before[i].net # rx.snet)
                    => /\ Len(sent) = 1
                       /\ Forwarded(sent[1])
                       /\ sent[1].link = LinkOf(before[i].net)
                       /\ sent[1].dest.mac = before[i].dnets[j].mac
                       /\ SentNpdu(sent[1]).dest.net = RxNpdu.dest.net
                       /\ SentNpdu(sent[1]).dest.adr = RxNpdu.dest.adr
                       /\ SentNpdu(sent[1]).npdu_data.hop_count
                            = RxNpdu.npdu_data.hop_count - 1
                       /\ CarriesRxApdu(sent[1])

(* an APDU for the network of another port than the one it arrived on *)
RxIsForOtherPort ==
    /\ RxIsRoutableApdu
    /\ RxNpdu.dest.net \in {BIP_Net, MSTP_Net} \ {rx.snet}

(* one copy, on the port of the DNET, to the MAC given by DADR, without a  *)
(* destination in its NPCI                                                 *)
DeliveredDirectly ==
    /\ Len(sent) = 1
    /\ Forwarded(sent[1])
    /\ sent[1].link = LinkOf(RxNpdu.dest.net)
    /\ sent[1].dest.mac = RxNpdu.dest.adr
    /\ SentNpdu(sent[1]).offset > 0
    /\ SentNpdu(sent[1]).dest.net = 0
    /\ ~Bit(32, At(sent[1].pdu, 1))
    /\ CarriesRxApdu(sent[1])

(* C19: an APDU with hop count > 1 whose DNET is the network of port q,    *)
(* arriving on another port, is emitted exactly once, on q, to the MAC     *)
(* given by DADR, with no destination in the NPCI.                         *)
C19_DirectDelivery == RxIsForOtherPort => DeliveredDirectly

(* a routed frame (SNET, SADR present) delivered to a station of the other *)
(* port                                                                    *)
C19_Witness ==
    /\ RxIsForOtherPort
    /\ RxNpdu.src.net # 0
    /\ Len(RxNpdu.dest.adr) > 0
    /\ DeliveredDirectly

(* an APDU with hops left for a network that is neither reserved nor in    *)
(* the table                                                               *)
RxIsForUnknownNetwork ==
    /\ RxIsRoutableApdu
    /\ RxNpdu.dest.net \notin {0, BACNET_BROADCAST_NETWORK} \cup NetSet(before)

IsWhoIs(e) == SentMessage(e, NETWORK_MESSAGE_WHO_IS_ROUTER_TO_NETWORK)

(* what went out on a link: one Who-Is-Router-To-Network for the DNET, and *)
(* one broadcast copy with the DNET in its NPCI unless it is the source    *)
(* port                                                                    *)
SpeculativeForwardOn(link) ==
    LET copies == SelectSeq(SentOn(link), Forwarded)
        whois == SelectSeq(SentOn(link), IsWhoIs)
    IN  /\ Len(SentOn(link)) = Len(copies) + Len(whois)
        /\ Len(copies) = IF link = rx.link THEN 0 ELSE 1
        /\ \A k \in 1..Len(copies) :
            /\ copies[k].dest.mac = <<>>
            /\ SentNpdu(copies[k]).dest.net = RxNpdu.dest.net
            /\ CarriesRxApdu(copies[k])
        /\ Len(whois) = 1
        /\ BroadcastMessage(whois[1],
                NETWORK_MESSAGE_WHO_IS_ROUTER_TO_NETWORK)
        /\ SentPayload(whois[1]) = encode_unsigned16(RxNpdu.dest.net)

(* C20: an APDU with hop count > 1 for a DNET that is nonzero, not 0xFFFF  *)
(* and not in the table goes out as a broadcast with the DNET kept, once   *)
(* on every port but the source port, and a Who-Is-Router-To-Network for   *)
(* that DNET is broadcast on every port; no Reject-Message-To-Network.     *)
C20_UnknownDnet ==
    RxIsForUnknownNetwork => \A link \in Links : SpeculativeForwardOn(link)

(* the case of network 99, with three PDUs sent *)
C20_Witness ==
    /\ RxIsForUnknownNetwork
    /\ Len(sent) = 3
    /\ \A link \in Links : SpeculativeForwardOn(link)

-----------------------------------------------------------------------------
(* an APDU for the global broadcast network that is not a confirmed        *)
(* service request                                                         *)
RxIsGlobalBroadcast ==
    /\ RxIsApdu
    /\ RxNpdu.dest.net = BACNET_BROADCAST_NETWORK
    /\ Len(RxPayload) > 0
    /\ RxPayload[1] \div 16 # 0

(* the ports other than the source port, in table order *)
OtherPorts(table, snet) == SelectSeq(table, LAMBDA q : q.net # snet)

(* one copy per port other than the source port, in table order, each to   *)
(* the broadcast MAC and with destination network net in its NPCI          *)
BroadcastOnOtherPorts(net) ==
    LET other == OtherPorts(before, rx.snet) IN
    /\ Len(sent) = Len(other)
    /\ \A k \in 1..Len(sent) :
        /\ Forwarded(sent[k])
        /\ sent[k].link = LinkOf(other[k].net)
        /\ sent[k].link # rx.link
        /\ sent[k].dest.mac = <<>>
        /\ SentNpdu(sent[k]).offset > 0
        /\ SentNpdu(sent[k]).dest.net = net
        /\ SentNpdu(sent[k]).dest.adr = <<>>
        /\ CarriesRxApdu(sent[k])

(* C21 (as claimed): a non-confirmed APDU with DNET 0xFFFF and hops left   *)
(* is emitted once on each port other than the source port, in table       *)
(* order, to the broadcast MAC, with destination network 0 in the NPCI.    *)
C21_GlobalBroadcast_AsClaimed ==
    (RxIsGlobalBroadcast /\ RxNpdu.npdu_data.hop_count > 1)
        => BroadcastOnOtherPorts(0)

(* C21 (amended): a non-confirmed APDU with DNET 0xFFFF is emitted once on *)
(* each port other than the source port, in table order, to the broadcast  *)
(* MAC, and the NPCI of each copy keeps destination network 0xFFFF with a  *)
(* destination address of length 0.                                        *)
C21_GlobalBroadcast ==
    RxIsGlobalBroadcast => BroadcastOnOtherPorts(BACNET_BROADCAST_NETWORK)

(* a global broadcast with hops left that went out on the other port *)
C21_Witness ==
    /\ RxIsGlobalBroadcast
    /\ RxNpdu.npdu_data.hop_count > 1
    /\ Len(sent) = 1
    /\ BroadcastOnOtherPorts(BACNET_BROADCAST_NETWORK)

(* a Who-Is-Router-To-Network with one octet, or an                        *)
(* Initialize-Routing-Table with count N > 0 and less than N entries of 4  *)
(* octets                                                                  *)
RxIsMalformedMessage ==
    \/ /\ RxIsMessage(NETWORK_MESSAGE_WHO_IS_ROUTER_TO_NETWORK)
       /\ Len(RxPayload) = 1
    \/ /\ RxIsMessage(NETWORK_MESSAGE_INIT_RT_TABLE)
       /\ Len(RxPayload) >= 1
       /\ RxPayload[1] > 0
       /\ Len(RxPayload) < 1 + 4 * RxPayload[1]

(* C22 (as claimed): a network layer message of a recognized type with a   *)
(* payload shorter than its declared contents causes no emission.          *)
C22_MalformedNoEmission == RxIsMalformedMessage => sent = <<>>

(* the frame was refused: wrong protocol version or NPCI decoding failed *)
RxIsRefused ==
    /\ pc = "handled"
    /\ \/ At(RxBuffer, 0) # BACNET_PROTOCOL_VERSION
       \/ RxNpdu.offset <= 0

(* C23: a frame whose first octet is not protocol version 1, or whose NPCI *)
(* does not decode, is discarded: nothing emitted, nothing handed to the   *)
(* APDU handler, the table unchanged.                                      *)
C23_RefusedFrameDiscarded ==
    RxIsRefused
        => /\ sent = <<>>
           /\ apdus = <<>>
           /\ Router_Table_Head = before

(* a frame of protocol version 2 that would decode as a local APDU, in a   *)
(* table with a remote network                                             *)
C23_Witness ==
    /\ RxIsRefused
    /\ At(RxBuffer, 0) # BACNET_PROTOCOL_VERSION
    /\ RxNpdu.offset > 0
    /\ remote_count(before, 1) >= 1
    /\ sent = <<>>
    /\ apdus = <<>>

(* an APDU without DNET or for DNET 0xFFFF whose first octet is not that  *)
(* of a confirmed service request                                          *)
RxIsForApplication ==
    /\ RxIsApdu
    /\ RxNpdu.dest.net \in {0, BACNET_BROADCAST_NETWORK}
    /\ Len(RxPayload) > 0
    /\ RxPayload[1] \div 16 # 0

(* C24: a decoded APDU frame without DNET or with DNET 0xFFFF whose first  *)
(* APDU octet is not that of a confirmed service request is handed to the  *)
(* APDU handler exactly once, with its source and its APDU; a frame with a *)
(* specific DNET is never handed to it.                                    *)
C24_ApduDelivery ==
    /\ RxIsForApplication
        => /\ Len(apdus) = 1
           /\ apdus[1].src = RxNpdu.src
           /\ apdus[1].apdu = RxPayload
    /\ (RxIsApdu /\ RxNpdu.dest.net \notin {0, BACNET_BROADCAST_NETWORK})
        => apdus = <<>>

(* a local frame (hop count absent) handed to the APDU handler *)
C24_Witness ==
    /\ RxIsForApplication
    /\ RxNpdu.dest.net = 0
    /\ RxNpdu.npdu_data.hop_count = 0
    /\ Len(apdus) = 1
    /\ apdus[1].apdu = RxPayload

(* table new is table old with remote networks appended to its ports *)
Grown(old, new) ==
    /\ Len(new) = Len(old)
    /\ \A i \in 1..Len(old) :
        /\ new[i].net = old[i].net
        /\ new[i].mac = old[i].mac
        /\ Len(new[i].dnets) >= Len(old[i].dnets)
        /\ SubSeq(new[i].dnets, 1, Len(old[i].dnets)) = old[i].dnets

(* C25: after startup a received frame leaves the ports as they are and    *)
(* each port's remote networks as a prefix of its new list: nothing is     *)
(* removed, moved or reordered, new remote networks are appended.          *)
C25_TableOnlyGrows ==
    pc = "handled" => Grown(before, Router_Table_Head)

(* a remote network appended behind an existing one of the same port *)
C25_Witness ==
    /\ pc = "handled"
    /\ Grown(before, Router_Table_Head)
    /\ \E i \in 1..Len(before) :
        /\ Len(before[i].dnets) >= 1
        /\ Len(Router_Table_Head[i].dnets) > Len(before[i].dnets)

(* the network numbers of the ports *)
PortNetworks(table) == {table[i].net : i \in 1..Len(table)}

(* C26 (as claimed): dnet_add through a network that is not the network of *)
(* a port, a remote network of some port included, leaves the table as it  *)
(* was.                                                                    *)
C26_AddViaNonPortIsNoOp ==
    pc = "idle"
        => \A via \in (NetSet(Router_Table_Head) \cup {99})
                        \ (PortNetworks(Router_Table_Head)
                           \cup {0, BACNET_BROADCAST_NETWORK}) :
            \A n \in {7, 99} :
                dnet_add(Router_Table_Head, via, n, Address(0, MacA, <<>>))
                    = Router_Table_Head

(* the two-pass search: all port networks first, then the remote networks *)
(* of every port; the address is filled in from a remote network only     *)
Least(S) == CHOOSE x \in S : \A y \in S : x <= y

PortsWithNet(table, n) == {i \in 1..Len(table) : table[i].net = n}

EntriesWithNet(dnets, n) == {j \in 1..Len(dnets) : dnets[j].net = n}

PortsOwningNet(table, n) ==
    {i \in 1..Len(table) : EntriesWithNet(table[i].dnets, n) # {}}

TwoPassPort(table, n) ==
    IF PortsWithNet(table, n) # {} THEN Least(PortsWithNet(table, n))
    ELSE IF PortsOwningNet(table, n) # {} THEN Least(PortsOwningNet(table, n))
    ELSE 0

TwoPassAddress(table, n, addr) ==
    IF PortsWithNet(table, n) # {} \/ PortsOwningNet(table, n) = {} THEN addr
    ELSE LET p == Least(PortsOwningNet(table, n)) IN
         [addr EXCEPT
            !.mac = table[p].dnets[Least(EntriesWithNet(table[p].dnets, n))].mac]

(* the caller's address before a search *)
CallerAddress == Address(99, <<9, 9, 9>>, <<204>>)

(* C27: on every table the main loop can see and for every network number *)
(* n, dnet_find gives the port whose network is n and leaves the caller's  *)
(* address alone, else the port owning remote network n with the caller's  *)
(* MAC set to the stored next hop, else no port: the result of the         *)
(* two-pass search.                                                        *)
C27_FindIsTwoPass ==
    pc = "idle"
        => \A n \in NetSet(Router_Table_Head)
                    \cup {0, 5, 99, BACNET_BROADCAST_NETWORK} :
            /\ dnet_find(Router_Table_Head, n)
                = TwoPassPort(Router_Table_Head, n)
            /\ dnet_find_addr(Router_Table_Head, n, CallerAddress)
                = TwoPassAddress(Router_Table_Head, n, CallerAddress)

(* both ports own a remote network, and the search for the one of the      *)
(* second port gives that port and the stored next hop                     *)
C27_Witness ==
    /\ pc = "idle"
    /\ Len(Router_Table_Head) = 2
    /\ Len(Router_Table_Head[1].dnets) >= 1
    /\ Len(Router_Table_Head[2].dnets) >= 1
    /\ dnet_find(Router_Table_Head, Router_Table_Head[2].dnets[1].net) = 2
    /\ dnet_find_addr(Router_Table_Head, Router_Table_Head[2].dnets[1].net,
                      CallerAddress).mac = Router_Table_Head[2].dnets[1].mac
    /\ dnet_find_addr(Router_Table_Head, Router_Table_Head[2].net,
                      CallerAddress) = CallerAddress

(* an APDU from a routed source (SNET nonzero) of which a copy was sent *)
RxIsForwardedRouted ==
    /\ RxIsApdu
    /\ RxNpdu.src.net # 0
    /\ \E k \in 1..Len(sent) : Forwarded(sent[k])

(* C28: every forwarded copy of a frame that arrived on port p with SNET s *)
(* nonzero carries the received SNET and SADR, and s, when it was not in   *)
(* the table, is now a remote network of p with the MAC the frame came     *)
(* from as next hop.                                                       *)
C28_RoutedSourceKept ==
    RxIsForwardedRouted
        => /\ \A k \in 1..Len(sent) :
                Forwarded(sent[k])
                    => /\ SentNpdu(sent[k]).src.net = RxNpdu.src.net
                       /\ SentNpdu(sent[k]).src.adr = RxNpdu.src.adr
           /\ RxNpdu.src.net \notin NetSet(before)
                => Dnet(RxNpdu.src.net, rx.mac)
                    \in PortDnets(Router_Table_Head, rx.snet)

(* the route to the source network was learned while forwarding *)
C28_Witness ==
    /\ RxIsForwardedRouted
    /\ RxNpdu.src.net \notin NetSet(before)
    /\ Dnet(RxNpdu.src.net, rx.mac) \in PortDnets(Router_Table_Head, rx.snet)
    /\ \A k \in 1..Len(sent) :
        Forwarded(sent[k])
            => /\ SentNpdu(sent[k]).src.net = RxNpdu.src.net
               /\ SentNpdu(sent[k]).src.adr = RxNpdu.src.adr

(* the message types that network_control_handler has an empty case for *)
IgnoredMessageTypes ==
    {NETWORK_MESSAGE_I_COULD_BE_ROUTER_TO_NETWORK,
     NETWORK_MESSAGE_REJECT_MESSAGE_TO_NETWORK,
     NETWORK_MESSAGE_ROUTER_BUSY_TO_NETWORK,
     NETWORK_MESSAGE_ROUTER_AVAILABLE_TO_NETWORK,
     NETWORK_MESSAGE_INIT_RT_TABLE_ACK,
     NETWORK_MESSAGE_ESTABLISH_CONNECTION_TO_NETWORK,
     NETWORK_MESSAGE_DISCONNECT_CONNECTION_TO_NETWORK}

RxIsIgnoredMessage ==
    /\ RxIsNetworkMessage
    /\ RxNpdu.npdu_data.network_message_type \in IgnoredMessageTypes

(* C29: an I-Could-Be-Router-To-Network, Reject-Message-To-Network,        *)
(* Router-Busy, Router-Available, Initialize-Routing-Table-Ack,            *)
(* Establish-Connection or Disconnect-Connection message is answered with  *)
(* nothing on any port and leaves the routing table as it was.             *)
C29_IgnoredMessages ==
    RxIsIgnoredMessage
        => /\ sent = <<>>
           /\ apdus = <<>>
           /\ Router_Table_Head = before

(* a Disconnect-Connection message with a payload was received and ignored *)
C29_Witness ==
    /\ RxIsMessage(NETWORK_MESSAGE_DISCONNECT_CONNECTION_TO_NETWORK)
    /\ Len(RxPayload) > 0
    /\ sent = <<>>
    /\ Router_Table_Head = before

(* C30: the Initialize-Routing-Table-Ack that answers an                   *)
(* Initialize-Routing-Table received on a port goes out on that port and   *)
(* on no other, whatever 16-bit network number the port has.               *)
C30_AckOnSourcePortOnly ==
    (/\ RxIsMessage(NETWORK_MESSAGE_INIT_RT_TABLE)
     /\ Len(RxPayload) >= 1)
        => /\ Len(SentOn(rx.link)) = 1
           /\ \A k \in 1..Len(sent) :
                /\ sent[k].link = rx.link
                /\ SentMessage(sent[k], NETWORK_MESSAGE_INIT_RT_TABLE_ACK)

(* a network layer message for one specific network *)
RxIsMessageForNetwork ==
    /\ RxIsNetworkMessage
    /\ RxNpdu.dest.net \notin {0, BACNET_BROADCAST_NETWORK}

(* C31: a network layer message whose DNET is neither 0 nor 0xFFFF is      *)
(* dropped whatever its type: nothing is sent, nothing is delivered to     *)
(* the application and the routing table is unchanged.                     *)
C31_MessageForNetworkDropped ==
    RxIsMessageForNetwork
        => /\ sent = <<>>
           /\ apdus = <<>>
           /\ Router_Table_Head = before

(* an I-Am-Router-To-Network for DNET 5 that names a network the table     *)
(* does not have was dropped                                               *)
C31_Witness ==
    /\ RxIsMessageForNetwork
    /\ RxNpdu.npdu_data.network_message_type
        = NETWORK_MESSAGE_I_AM_ROUTER_TO_NETWORK
    /\ Len(RxPayload) >= 2
    /\ decode_unsigned16(RxPayload, 0) \notin NetSet(before)
    /\ sent = <<>>
    /\ Router_Table_Head = before

(* an APDU without a destination network *)
RxIsLocalApdu == RxIsApdu /\ RxNpdu.dest.net = 0

(* C32: whatever frames were received before, an APDU without a            *)
(* destination network is handed to the application only: nothing is sent  *)
(* on any port and the routing table is unchanged.                         *)
C32_LocalApduOnlyDelivered ==
    RxIsLocalApdu
        => /\ sent = <<>>
           /\ Router_Table_Head = before
           /\ Len(apdus) = 1
           /\ apdus[1].apdu = RxPayload

(* the outcome of handling the received frame had the octets behind it in  *)
(* the receive buffer been t                                               *)
HandledWithTail(t) ==
    my_routing_npdu_handler(before, rx.snet, Address(0, rx.mac, <<>>),
                            rx.pdu \o t, Len(rx.pdu))

(* C33: handling a frame of length n reads no octet of the receive buffer  *)
(* at index n or above: the table, the frames sent and the APDUs           *)
(* delivered are the same whatever lies behind the frame in the buffer.    *)
C33_NoReadBeyondFrame ==
    pc = "handled"
        => \A t \in StaleTails :
            HandledWithTail(t)
                = [table |-> Router_Table_Head, sent |-> sent, apdus |-> apdus]

=============================================================================
